---- MODULE Spec2Model ----
(***************************************************************************)
(* async_job (src/src/lib.rs): the Runner, the process-wide TRACKER and    *)
(* the background polling loop spawned by run(), as a state machine.       *)
(*                                                                         *)
(* Time is the wall clock (Utc::now()) in milliseconds.  A piece of code   *)
(* without a suspension point (add, run, stop, one evaluation of a job,    *)
(* the bookkeeping around a handler) is one atomic step taken at one       *)
(* instant; the clock advances between steps.  The loop's two suspension   *)
(* points (the awaited handler, the inter-cycle sleep) are states of the   *)
(* task.                                                                   *)
(***************************************************************************)
EXTENDS Integers, Sequences, FiniteSets, TLC

VARIABLES
    now,        \* Utc::now(), ms
    jobs,       \* Runner.jobs        : runner -> sequence of jobs
    thread,     \* Runner.thread      : runner -> the JoinHandle is Some
    running,    \* Runner.running
    tx,         \* Runner.tx          : runner -> the sender is Some
    working,    \* Runner.working     : the shared AtomicBool
    task,       \* the task spawned by spawn(): status, position, slot, sleep
                \* deadline (0: none pending), owned jobs
    rx,         \* messages queued in the stop channel of the runner's task
    abort,      \* JoinHandle::abort() was called on the runner's task
    TRACKER,    \* the process-wide Tracker(Vec<usize>)
    executing,  \* history: slots whose handle() was entered and is in progress
    added,      \* history: the jobs passed to add() on a never started runner
    lastCall,   \* history: the last Runner method called, and on what
    probe,      \* inputs and result of one should_run evaluation
    polls,      \* history: per runner, when its loop polled and invoked
    ref         \* history: the calls made on a Tracker, and the set they denote

vars == <<now, jobs, thread, running, tx, working, task, rx, abort,
          TRACKER, executing, added, lastCall, probe, polls, ref>>

----------------------------------------------------------------------------
(* Bounds of the model *)

\* add() is called at most MaxJobs times in the process
MaxJobs == 2
\* the clock advances at most MaxTicks times
MaxTicks == 10
\* the same, where the last call of a Runner method is recorded
MaxCallTicks == 2
\* should_run is probed at every millisecond of 0..MaxProbeMs
MaxProbeMs == 1300
\* the same as MaxTicks, where the polls of the loops are recorded
MaxPollTicks == 11
\* the same as MaxTicks, where handlers take no time and sleeps are exact
MaxInstantTicks == 11
\* start and stop are called on a Tracker with the ids 0..MaxId
MaxId == 3
\* the same as MaxJobs and MaxTicks, where TRACKER holds several slots
MaxTrackJobs == 3
MaxTrackTicks == 1

(* Program constants *)

\* Duration::milliseconds(100) in should_run
THRESHOLD_MS == 100
\* tokio::time::sleep(Duration::from_millis(100)) in the loop
SLEEP_MS == 100

\* granularity of the modelled clock
TickMs == THRESHOLD_MS
\* one second: cron::Schedule fires on whole seconds
SecondMs == 10 * THRESHOLD_MS
\* the clock reads Epoch when the process starts: one tick before a second
Epoch == SecondMs - TickMs

Runners == {"A", "B"}

----------------------------------------------------------------------------
(* Schedule (the cron crate) and Job *)

NoSchedule == [some |-> FALSE, every |-> 0, phase |-> 0]
\* "* * * * * *": every second
EverySecond == [some |-> TRUE, every |-> SecondMs, phase |-> 0]
\* "1/5 * * * * *": seconds 1, 6, 11, ...
EveryFive == [some |-> TRUE, every |-> 5 * SecondMs, phase |-> SecondMs]

\* a Job implementation: what its three query methods return
Job(a, p, s) == [active |-> a, parallel |-> p, sched |-> s]

is_active(job) == job.active

allow_parallel_runs(job) == job.parallel

schedule(job) == job.sched

\* schedule.upcoming(Utc).take(1): the fire times strictly after t, the
\* first one only
upcoming_take1(s, t) ==
    LET k == IF t < s.phase THEN 0 ELSE ((t - s.phase) \div s.every) + 1
    IN  << s.phase + k * s.every >>

should_run_lt(job, t) ==
    IF is_active(job)
    THEN IF schedule(job).some
         THEN LET items == upcoming_take1(schedule(job), t)
              IN  \E i \in 1..Len(items) : items[i] - t < THRESHOLD_MS
         ELSE FALSE
    ELSE FALSE

\* Job::should_run, evaluated at instant t
should_run(job, t) ==
    IF is_active(job)
    THEN IF schedule(job).some
         THEN LET items == upcoming_take1(schedule(job), t)
              IN  \E i \in 1..Len(items) : items[i] - t <= THRESHOLD_MS
         ELSE FALSE
    ELSE FALSE

\* the jobs a caller may register
JobKinds ==
    { Job(TRUE, FALSE, EverySecond),    \* the trait's defaults
      Job(TRUE, TRUE, EverySecond),     \* allow_parallel_runs overridden
      Job(FALSE, FALSE, EverySecond) }  \* is_active overridden

\* the jobs should_run is probed on
ProbeJobs ==
    { Job(a, p, s) : a \in BOOLEAN, p \in BOOLEAN,
                     s \in {NoSchedule, EverySecond, EveryFive} }

----------------------------------------------------------------------------
(* Tracker *)

Tracker_new == << >>

Tracker_running(t, id) == \E i \in 1..Len(t) : t[i] = id

\* as Tracker_start, without the test of running(id)
Tracker_start_push(t, id) == Append(t, id)

\* the Vec after start(id)
Tracker_start(t, id) == IF ~Tracker_running(t, id) THEN Append(t, id) ELSE t

\* the Vec after stop(id): the first occurrence is removed
Tracker_stop(t, id) ==
    IF Tracker_running(t, id)
    THEN LET i == CHOOSE k \in 1..Len(t) :
                      t[k] = id /\ \A m \in 1..(k - 1) : t[m] # id
         IN  SubSeq(t, 1, i - 1) \o SubSeq(t, i + 1, Len(t))
    ELSE t

----------------------------------------------------------------------------
(* Runner *)

NoTask == [st |-> "none", pc |-> "none", id |-> 0, wake |-> 0, jobs |-> << >>]

NoProbe == [job |-> Job(TRUE, FALSE, NoSchedule), t |-> 0,
            done |-> FALSE, res |-> FALSE]

\* nothing recorded about a loop: no first poll, no fire time served
NoPolls == [first |-> 0, fire |-> << >>]

\* no call was made on the Tracker
NoRef == [set |-> {}, last |-> [i \in 0..MaxId |-> "none"], ret |-> 0]

jobs_to_run(r) == Len(jobs[r])

is_running(r) == running[r]

is_working(r) == working[r]

\* the shape of the runner (spec 4.3), read off its fields
Phase(r) ==
    IF ~running[r] THEN "Unstarted"
    ELSE IF thread[r] THEN "Started" ELSE "Stopped"

Call(op, r) == [op |-> op, r |-> r, pre |-> Phase(r)]

TotalAdded ==
    LET RECURSIVE Sum(_)
        Sum(S) == IF S = {} THEN 0
                  ELSE LET r == CHOOSE x \in S : TRUE
                       IN  Len(added[r]) + Sum(S \ {r})
    IN  Sum(Runners)

\* fewer than n jobs were registered in the process
Budget(n) == TotalAdded < n

\* Runner::new() for every runner of the process; TRACKER is empty
InitProgram ==
    /\ now = Epoch
    /\ jobs = [r \in Runners |-> << >>]
    /\ thread = [r \in Runners |-> FALSE]
    /\ running = [r \in Runners |-> FALSE]
    /\ tx = [r \in Runners |-> FALSE]
    /\ working = [r \in Runners |-> FALSE]
    /\ task = [r \in Runners |-> NoTask]
    /\ rx = [r \in Runners |-> 0]
    /\ abort = [r \in Runners |-> FALSE]
    /\ TRACKER = Tracker_new
    /\ executing = [r \in Runners |-> << >>]
    /\ added = [r \in Runners |-> << >>]
    /\ lastCall = [op |-> "new", r |-> "A", pre |-> "Unstarted"]
    /\ polls = [r \in Runners |-> NoPolls]
    /\ ref = NoRef

Init == InitProgram /\ probe = NoProbe

\* as Add, pushing a job only when no equal job is in the list
Add_nodup(r, job) ==
    /\ jobs' = IF ~running[r] /\ ~(\E i \in 1..Len(jobs[r]) : jobs[r][i] = job)
               THEN [jobs EXCEPT ![r] = Append(@, job)] ELSE jobs
    /\ added' = IF Phase(r) = "Unstarted"
                THEN [added EXCEPT ![r] = Append(@, job)] ELSE added
    /\ UNCHANGED <<now, thread, running, tx, working, task, rx, abort,
                   TRACKER, executing, probe,
                   polls, ref>>

\* as Add, without the test of self.running
Add_noguard(r, job) ==
    /\ jobs' = [jobs EXCEPT ![r] = Append(@, job)]
    /\ added' = IF Phase(r) = "Unstarted"
                THEN [added EXCEPT ![r] = Append(@, job)] ELSE added
    /\ UNCHANGED <<now, thread, running, tx, working, task, rx, abort,
                   TRACKER, executing, probe,
                   polls, ref>>

\* Runner::add
Add(r, job) ==
    /\ jobs' = IF ~running[r] THEN [jobs EXCEPT ![r] = Append(@, job)] ELSE jobs
    /\ added' = IF Phase(r) = "Unstarted"
                THEN [added EXCEPT ![r] = Append(@, job)] ELSE added
    /\ UNCHANGED <<now, thread, running, tx, working, task, rx, abort,
                   TRACKER, executing, probe,
                   polls, ref>>

\* as Run, without the early return on an empty job list
Run_noguard(r) ==
    /\ task' = [task EXCEPT ![r] = [st |-> "alive", pc |-> "check",
                                    id |-> 0, wake |-> 0, jobs |-> jobs[r]]]
    /\ rx' = [rx EXCEPT ![r] = 0]
    /\ abort' = [abort EXCEPT ![r] = FALSE]
    /\ thread' = [thread EXCEPT ![r] = TRUE]
    /\ jobs' = [jobs EXCEPT ![r] = << >>]
    /\ running' = [running EXCEPT ![r] = TRUE]
    /\ tx' = [tx EXCEPT ![r] = TRUE]
    /\ working' = [working EXCEPT ![r] = FALSE]
    /\ UNCHANGED <<now, TRACKER, executing, added, probe,
                   ref>>

\* Runner::run, with spawn(): the task owns the jobs and starts at the top
\* of its loop
Run(r) ==
    /\ IF jobs[r] = << >>
       THEN UNCHANGED <<jobs, thread, running, tx, working, task, rx, abort>>
       ELSE /\ task' = [task EXCEPT ![r] = [st |-> "alive", pc |-> "check",
                                            id |-> 0, wake |-> 0,
                                            jobs |-> jobs[r]]]
            /\ rx' = [rx EXCEPT ![r] = 0]
            /\ abort' = [abort EXCEPT ![r] = FALSE]
            /\ thread' = [thread EXCEPT ![r] = TRUE]
            /\ jobs' = [jobs EXCEPT ![r] = << >>]
            /\ running' = [running EXCEPT ![r] = TRUE]
            /\ tx' = [tx EXCEPT ![r] = TRUE]
            /\ working' = [working EXCEPT ![r] = FALSE]
    /\ UNCHANGED <<now, TRACKER, executing, added, probe,
                   ref>>

\* as Stop, with the signal sent whether or not a handle is left to take
Stop_resend(r) ==
    /\ IF ~running[r]
       THEN UNCHANGED <<thread, rx, abort>>
       ELSE /\ rx' = IF tx[r] /\ task[r].st = "alive"
                     THEN [rx EXCEPT ![r] = @ + 1] ELSE rx
            /\ IF thread[r]
               THEN /\ thread' = [thread EXCEPT ![r] = FALSE]
                    /\ abort' = [abort EXCEPT ![r] = TRUE]
               ELSE UNCHANGED <<thread, abort>>
    /\ UNCHANGED <<now, jobs, running, tx, working, task, TRACKER,
                   executing, added, probe,
                   polls, ref>>

\* as Stop, without thread.abort()
Stop_noabort(r) ==
    /\ IF ~running[r]
       THEN UNCHANGED <<thread, rx>>
       ELSE IF thread[r]
            THEN /\ thread' = [thread EXCEPT ![r] = FALSE]
                 /\ rx' = IF tx[r] /\ task[r].st = "alive"
                          THEN [rx EXCEPT ![r] = @ + 1] ELSE rx
            ELSE UNCHANGED <<thread, rx>>
    /\ UNCHANGED <<now, jobs, running, tx, working, task, TRACKER,
                   executing, added, abort, probe,
                   polls, ref>>

\* as Stop, with running set to false once the task is stopped
Stop_reset(r) ==
    /\ IF ~running[r]
       THEN UNCHANGED <<thread, rx, abort, running>>
       ELSE IF thread[r]
            THEN /\ thread' = [thread EXCEPT ![r] = FALSE]
                 /\ rx' = IF tx[r] /\ task[r].st = "alive"
                          THEN [rx EXCEPT ![r] = @ + 1] ELSE rx
                 /\ abort' = [abort EXCEPT ![r] = TRUE]
                 /\ running' = [running EXCEPT ![r] = FALSE]
            ELSE UNCHANGED <<thread, rx, abort, running>>
    /\ UNCHANGED <<now, jobs, tx, working, task, TRACKER,
                   executing, added, probe,
                   polls, ref>>

\* Runner::stop: the send fails (and is logged) when the receiver is gone
Stop(r) ==
    /\ IF ~running[r]
       THEN UNCHANGED <<thread, rx, abort>>
       ELSE IF thread[r]
            THEN /\ thread' = [thread EXCEPT ![r] = FALSE]
                 /\ rx' = IF tx[r] /\ task[r].st = "alive"
                          THEN [rx EXCEPT ![r] = @ + 1] ELSE rx
                 /\ abort' = [abort EXCEPT ![r] = TRUE]
            ELSE UNCHANGED <<thread, rx, abort>>
    /\ UNCHANGED <<now, jobs, running, tx, working, task, TRACKER,
                   executing, added, probe,
                   polls, ref>>

----------------------------------------------------------------------------
(* The task spawned by spawn() *)

Alive(r) == task[r].st = "alive"

\* seq without its first entry equal to x: an invocation of slot x is over
RemoveOne(seq, x) ==
    IF \E i \in 1..Len(seq) : seq[i] = x
    THEN LET i == CHOOSE k \in 1..Len(seq) :
                      seq[k] = x /\ \A m \in 1..(k - 1) : seq[m] # x
         IN  SubSeq(seq, 1, i - 1) \o SubSeq(seq, i + 1, Len(seq))
    ELSE seq

\* the task is over: its receiver and its jobs are dropped
Ended(r, how) == [st |-> how, pc |-> "none", id |-> 0, wake |-> 0, jobs |-> << >>]

\* top of the loop: rx.try_recv()
LoopCheckStop(r) ==
    /\ Alive(r) /\ task[r].pc = "check"
    /\ IF rx[r] > 0
       THEN /\ task' = [task EXCEPT ![r] = Ended(r, "finished")]
            /\ rx' = [rx EXCEPT ![r] = 0]
       ELSE /\ task' = [task EXCEPT ![r] = [@ EXCEPT !.pc = "eval", !.id = 0]]
            /\ UNCHANGED rx
    /\ UNCHANGED <<now, jobs, thread, running, tx, working, abort, TRACKER,
                   executing, added,
                   lastCall, probe,
                   ref>>

\* the condition of the if in the for loop, for the job at slot id
Eligible(job, id) ==
    /\ should_run(job, now)
    /\ (allow_parallel_runs(job) \/ ~Tracker_running(TRACKER, id))

\* one iteration of the for loop up to the decision
LoopEval(r) ==
    /\ Alive(r) /\ task[r].pc = "eval"
    /\ task[r].id < Len(task[r].jobs)
    /\ LET id == task[r].id
           job == task[r].jobs[id + 1]
       IN  IF Eligible(job, id)
           THEN task' = [task EXCEPT ![r] = [@ EXCEPT !.pc = "start"]]
           ELSE task' = [task EXCEPT ![r] = [@ EXCEPT !.id = id + 1]]
    /\ UNCHANGED <<now, jobs, thread, running, tx, working, rx, abort,
                   TRACKER, executing, added,
                   lastCall, probe,
                   ref>>

\* as LoopStart, without working.store(true)
LoopStart_nostore(r) ==
    /\ Alive(r) /\ task[r].pc = "start"
    /\ TRACKER' = Tracker_start(TRACKER, task[r].id)
    /\ executing' = [executing EXCEPT ![r] = Append(@, task[r].id)]
    /\ task' = [task EXCEPT ![r] = [@ EXCEPT !.pc = "handle"]]
    /\ UNCHANGED <<now, jobs, thread, running, tx, working, rx, abort, added,
                   lastCall, probe,
                   ref>>

\* TRACKER.write().start(&id); working.store(true); job.handle() is entered
LoopStart(r) ==
    /\ Alive(r) /\ task[r].pc = "start"
    /\ TRACKER' = Tracker_start(TRACKER, task[r].id)
    /\ working' = [working EXCEPT ![r] = TRUE]
    /\ executing' = [executing EXCEPT ![r] = Append(@, task[r].id)]
    /\ task' = [task EXCEPT ![r] = [@ EXCEPT !.pc = "handle"]]
    /\ UNCHANGED <<now, jobs, thread, running, tx, rx, abort, added,
                   lastCall, probe,
                   ref>>

\* as HandleReturn, with the handler spawned instead of awaited: the loop
\* goes on while the handler is still in progress
HandleReturn_spawned(r) ==
    /\ Alive(r) /\ task[r].pc = "handle"
    /\ LET id == task[r].id
           t == Tracker_stop(TRACKER, id)
       IN  /\ TRACKER' = t
           /\ working' = [working EXCEPT ![r] = (Len(t) # 0)]
           /\ task' = [task EXCEPT ![r] = [@ EXCEPT !.pc = "eval", !.id = id + 1]]
    /\ UNCHANGED <<now, jobs, thread, running, tx, rx, abort, added, executing,
                   lastCall, probe,
                   ref>>

\* as HandleReturn, with the slot not advanced: the job is evaluated again
\* in the same cycle
HandleReturn_again(r) ==
    /\ Alive(r) /\ task[r].pc = "handle"
    /\ LET id == task[r].id
           t == Tracker_stop(TRACKER, id)
       IN  /\ TRACKER' = t
           /\ working' = [working EXCEPT ![r] = (Len(t) # 0)]
           /\ executing' = [executing EXCEPT ![r] = RemoveOne(@, id)]
           /\ task' = [task EXCEPT ![r] = [@ EXCEPT !.pc = "eval"]]
    /\ UNCHANGED <<now, jobs, thread, running, tx, rx, abort, added,
                   lastCall, probe,
                   ref>>

\* as HandleReturn, with false stored whatever stop(&id) returned
HandleReturn_idle(r) ==
    /\ Alive(r) /\ task[r].pc = "handle"
    /\ LET id == task[r].id
           t == Tracker_stop(TRACKER, id)
       IN  /\ TRACKER' = t
           /\ working' = [working EXCEPT ![r] = FALSE]
           /\ executing' = [executing EXCEPT ![r] = RemoveOne(@, id)]
           /\ task' = [task EXCEPT ![r] = [@ EXCEPT !.pc = "eval", !.id = id + 1]]
    /\ UNCHANGED <<now, jobs, thread, running, tx, rx, abort, added,
                   lastCall, probe,
                   ref>>

\* job.handle().await returns; working.store(TRACKER.write().stop(&id) != 0)
HandleReturn(r) ==
    /\ Alive(r) /\ task[r].pc = "handle"
    /\ LET id == task[r].id
           t == Tracker_stop(TRACKER, id)
       IN  /\ TRACKER' = t
           /\ working' = [working EXCEPT ![r] = (Len(t) # 0)]
           /\ executing' = [executing EXCEPT ![r] = RemoveOne(@, id)]
           /\ task' = [task EXCEPT ![r] = [@ EXCEPT !.pc = "eval", !.id = id + 1]]
    /\ UNCHANGED <<now, jobs, thread, running, tx, rx, abort, added,
                   lastCall, probe,
                   ref>>

\* as HandlePanic, with the fault caught: the loop goes on as after a return
HandlePanic_caught(r) ==
    /\ Alive(r) /\ task[r].pc = "handle"
    /\ LET id == task[r].id
           t == Tracker_stop(TRACKER, id)
       IN  /\ TRACKER' = t
           /\ working' = [working EXCEPT ![r] = (Len(t) # 0)]
           /\ executing' = [executing EXCEPT ![r] = RemoveOne(@, id)]
           /\ task' = [task EXCEPT ![r] = [@ EXCEPT !.pc = "eval", !.id = id + 1]]
    /\ UNCHANGED <<now, jobs, thread, running, tx, rx, abort, added,
                   lastCall, probe,
                   ref>>

\* job.handle() panics: the panic unwinds the task
HandlePanic(r) ==
    /\ Alive(r) /\ task[r].pc = "handle"
    /\ task' = [task EXCEPT ![r] = Ended(r, "panicked")]
    /\ rx' = [rx EXCEPT ![r] = 0]
    /\ executing' = [executing EXCEPT ![r] = << >>]
    /\ UNCHANGED <<now, jobs, thread, running, tx, working, abort, TRACKER,
                   added,
                   lastCall, probe,
                   ref>>

\* the for loop is over: tokio::time::sleep(100 ms) begins
LoopSleep(r) ==
    /\ Alive(r) /\ task[r].pc = "eval"
    /\ task[r].id >= Len(task[r].jobs)
    /\ task' = [task EXCEPT ![r] = [@ EXCEPT !.pc = "sleep", !.id = 0,
                                              !.wake = now + SLEEP_MS]]
    /\ UNCHANGED <<now, jobs, thread, running, tx, working, rx, abort,
                   TRACKER, executing, added,
                   lastCall, probe,
                   polls, ref>>

\* as SleepWake, before the deadline of the sleep is reached
SleepWake_early(r) ==
    /\ Alive(r) /\ task[r].pc = "sleep"
    /\ ~abort[r]
    /\ task' = [task EXCEPT ![r] = [@ EXCEPT !.pc = "check", !.wake = 0]]
    /\ UNCHANGED <<now, jobs, thread, running, tx, working, rx, abort,
                   TRACKER, executing, added,
                   lastCall, probe,
                   polls, ref>>

\* the sleep is over; an aborted task is not polled again
SleepWake(r) ==
    /\ Alive(r) /\ task[r].pc = "sleep"
    /\ ~abort[r]
    /\ task[r].wake = 0
    /\ task' = [task EXCEPT ![r] = [@ EXCEPT !.pc = "check"]]
    /\ UNCHANGED <<now, jobs, thread, running, tx, working, rx, abort,
                   TRACKER, executing, added,
                   lastCall, probe,
                   polls, ref>>

\* JoinHandle::abort() takes effect at a suspension point: the future (the
\* loop, with the handler it awaits) is dropped
Cancel(r) ==
    /\ Alive(r) /\ abort[r]
    /\ task[r].pc \in {"handle", "sleep"}
    /\ task' = [task EXCEPT ![r] = Ended(r, "aborted")]
    /\ rx' = [rx EXCEPT ![r] = 0]
    /\ executing' = [executing EXCEPT ![r] = << >>]
    /\ UNCHANGED <<now, jobs, thread, running, tx, working, abort, TRACKER,
                   added,
                   lastCall, probe,
                   ref>>

\* the timer of a sleep whose deadline is reached at instant t has fired
\* (wake = 0)
Timers(t) ==
    [r \in Runners |->
        IF task[r].pc = "sleep" /\ task[r].wake # 0 /\ task[r].wake <= t
        THEN [task[r] EXCEPT !.wake = 0] ELSE task[r]]

\* the clock advances, at most n times
ClockStep(n) ==
    /\ now < Epoch + n * TickMs
    /\ now' = now + TickMs
    /\ task' = Timers(now + TickMs)
    /\ UNCHANGED <<jobs, thread, running, tx, working, rx, abort,
                   TRACKER, executing, added,
                   lastCall, probe,
                   polls, ref>>

Tick == ClockStep(MaxTicks)

TickCalls == ClockStep(MaxCallTicks)

TickPolls == ClockStep(MaxPollTicks)

TickTrack == ClockStep(MaxTrackTicks)

Next ==
    \/ \E r \in Runners, job \in JobKinds :
          Budget(MaxJobs) /\ Add(r, job) /\ UNCHANGED lastCall
    \/ \E r \in Runners : Run(r) /\ UNCHANGED <<lastCall, polls>>
    \/ \E r \in Runners : Stop(r) /\ UNCHANGED lastCall
    \/ \E r \in Runners : LoopCheckStop(r) /\ UNCHANGED polls
    \/ \E r \in Runners : LoopEval(r) /\ UNCHANGED polls
    \/ \E r \in Runners : LoopStart(r) /\ UNCHANGED polls
    \/ \E r \in Runners : HandleReturn(r) /\ UNCHANGED polls
    \/ \E r \in Runners : HandlePanic(r) /\ UNCHANGED polls
    \/ \E r \in Runners : LoopSleep(r)
    \/ \E r \in Runners : SleepWake(r)
    \/ \E r \in Runners : Cancel(r) /\ UNCHANGED polls
    \/ Tick

Spec == Init /\ [][Next]_vars

\* what the runtime guarantees: a task that can run is polled, and an abort
\* takes effect at a suspension point. A handler need never return.
RuntimeStep(r) ==
    \/ LoopCheckStop(r) /\ UNCHANGED polls
    \/ LoopEval(r) /\ UNCHANGED polls
    \/ LoopStart(r) /\ UNCHANGED polls
    \/ LoopSleep(r)
    \/ SleepWake(r)
    \/ Cancel(r) /\ UNCHANGED polls

FairSpec == Spec /\ \A r \in Runners : WF_vars(RuntimeStep(r))

\* the program, with the last call of a Runner method recorded
NextCalls ==
    \/ \E r \in Runners, job \in JobKinds :
          Budget(MaxJobs) /\ Add(r, job) /\ lastCall' = Call("add", r)
    \/ \E r \in Runners :
          Run(r) /\ lastCall' = Call("run", r) /\ UNCHANGED polls
    \/ \E r \in Runners : Stop(r) /\ lastCall' = Call("stop", r)
    \/ \E r \in Runners : LoopCheckStop(r) /\ UNCHANGED polls
    \/ \E r \in Runners : LoopEval(r) /\ UNCHANGED polls
    \/ \E r \in Runners : LoopStart(r) /\ UNCHANGED polls
    \/ \E r \in Runners : HandleReturn(r) /\ UNCHANGED polls
    \/ \E r \in Runners : HandlePanic(r) /\ UNCHANGED polls
    \/ \E r \in Runners : LoopSleep(r)
    \/ \E r \in Runners : SleepWake(r)
    \/ \E r \in Runners : Cancel(r) /\ UNCHANGED polls
    \/ TickCalls

SpecCalls == Init /\ [][NextCalls]_vars

\* the fire time that makes a job ready at instant t
FireTime(job, t) == upcoming_take1(schedule(job), t)[1]

\* history of run(): the task has served no fire time of any of its jobs
PollsRun(r) ==
    polls' = IF jobs[r] = << >> THEN polls
             ELSE [polls EXCEPT ![r] =
                      [NoPolls EXCEPT !.fire = [i \in 1..Len(jobs[r]) |-> 0]]]

\* history of an evaluation that finds the job at the slot eligible: the
\* fire time the handler is invoked for
PollsEval(r) ==
    polls' = IF Eligible(task[r].jobs[task[r].id + 1], task[r].id)
             THEN [polls EXCEPT ![r] =
                      [@ EXCEPT !.fire[task[r].id + 1] =
                           FireTime(task[r].jobs[task[r].id + 1], now)]]
             ELSE polls

\* the program, with the invocations of the handlers recorded
NextPolls ==
    \/ \E r \in Runners, job \in JobKinds :
          Budget(MaxJobs) /\ Add(r, job) /\ UNCHANGED lastCall
    \/ \E r \in Runners : Run(r) /\ PollsRun(r) /\ UNCHANGED lastCall
    \/ \E r \in Runners : Stop(r) /\ UNCHANGED lastCall
    \/ \E r \in Runners : LoopCheckStop(r) /\ UNCHANGED polls
    \/ \E r \in Runners : LoopEval(r) /\ PollsEval(r)
    \/ \E r \in Runners : LoopStart(r) /\ UNCHANGED polls
    \/ \E r \in Runners : HandleReturn(r) /\ UNCHANGED polls
    \/ \E r \in Runners : HandlePanic(r) /\ UNCHANGED polls
    \/ \E r \in Runners : LoopSleep(r)
    \/ \E r \in Runners : SleepWake(r)
    \/ \E r \in Runners : Cancel(r) /\ UNCHANGED polls
    \/ TickPolls

SpecPolls == Init /\ [][NextPolls]_vars

\* history of the first pass of a loop over its jobs
PollsFirst(r) ==
    polls' = IF polls[r].first = 0 /\ rx[r] = 0
             THEN [polls EXCEPT ![r] = [@ EXCEPT !.first = now]]
             ELSE polls

\* the task of r has nothing to do before its sleep is over
Idle(r) == ~Alive(r) \/ (task[r].pc = "sleep" /\ task[r].wake # 0)

\* no time passes while a loop has a step to take: handlers return at once
\* and a sleeping loop goes on at the instant its sleep is over
TickInstant == (\A r \in Runners : Idle(r)) /\ ClockStep(MaxInstantTicks)

\* the program with handlers that return instantly, sleeps that last
\* exactly SLEEP_MS and no faults
NextInstant ==
    \/ \E r \in Runners, job \in JobKinds :
          Budget(MaxJobs) /\ Add(r, job) /\ UNCHANGED lastCall
    \/ \E r \in Runners : Run(r) /\ PollsRun(r) /\ UNCHANGED lastCall
    \/ \E r \in Runners : Stop(r) /\ UNCHANGED lastCall
    \/ \E r \in Runners : LoopCheckStop(r) /\ PollsFirst(r)
    \/ \E r \in Runners : LoopEval(r) /\ PollsEval(r)
    \/ \E r \in Runners : LoopStart(r) /\ UNCHANGED polls
    \/ \E r \in Runners : HandleReturn(r) /\ UNCHANGED polls
    \/ \E r \in Runners : LoopSleep(r)
    \/ \E r \in Runners : SleepWake(r)
    \/ \E r \in Runners : Cancel(r) /\ UNCHANGED polls
    \/ TickInstant

SpecInstant == Init /\ [][NextInstant]_vars

\* the program with more jobs, over a shorter time
NextTrack ==
    \/ \E r \in Runners, job \in JobKinds :
          Budget(MaxTrackJobs) /\ Add(r, job) /\ UNCHANGED lastCall
    \/ \E r \in Runners : Run(r) /\ UNCHANGED <<lastCall, polls>>
    \/ \E r \in Runners : Stop(r) /\ UNCHANGED lastCall
    \/ \E r \in Runners : LoopCheckStop(r) /\ UNCHANGED polls
    \/ \E r \in Runners : LoopEval(r) /\ UNCHANGED polls
    \/ \E r \in Runners : LoopStart(r) /\ UNCHANGED polls
    \/ \E r \in Runners : HandleReturn(r) /\ UNCHANGED polls
    \/ \E r \in Runners : HandlePanic(r) /\ UNCHANGED polls
    \/ \E r \in Runners : LoopSleep(r)
    \/ \E r \in Runners : SleepWake(r)
    \/ \E r \in Runners : Cancel(r) /\ UNCHANGED polls
    \/ TickTrack

SpecTrack == Init /\ [][NextTrack]_vars

\* a caller's TRACKER.write().start(&id): the Vec, the value returned
\* (self.0.len()), and what the call means for a set of ids
CallStart(id) ==
    /\ TRACKER' = Tracker_start(TRACKER, id)
    /\ ref' = [set |-> ref.set \cup {id},
               last |-> [ref.last EXCEPT ![id] = "start"],
               ret |-> Len(Tracker_start(TRACKER, id))]
    /\ UNCHANGED <<now, jobs, thread, running, tx, working, task, rx, abort,
                   executing, added, lastCall, probe, polls>>

\* a caller's TRACKER.write().stop(&id)
CallStop(id) ==
    /\ TRACKER' = Tracker_stop(TRACKER, id)
    /\ ref' = [set |-> ref.set \ {id},
               last |-> [ref.last EXCEPT ![id] = "stop"],
               ret |-> Len(Tracker_stop(TRACKER, id))]
    /\ UNCHANGED <<now, jobs, thread, running, tx, working, task, rx, abort,
                   executing, added, lastCall, probe, polls>>

\* the Tracker alone: any sequence of start and stop calls
NextTracker ==
    \/ \E id \in 0..MaxId : CallStart(id)
    \/ \E id \in 0..MaxId : CallStop(id)

SpecTracker == Init /\ [][NextTracker]_vars

\* should_run alone: any job, any instant
InitShouldRun ==
    /\ InitProgram
    /\ probe \in [job : ProbeJobs, t : 0..MaxProbeMs, done : {FALSE}, res : {FALSE}]

ProbeShouldRun ==
    /\ ~probe.done
    /\ probe' = [probe EXCEPT !.done = TRUE,
                              !.res = should_run(probe.job, probe.t)]
    /\ UNCHANGED <<now, jobs, thread, running, tx, working, task, rx, abort,
                   TRACKER, executing, added, lastCall,
                   polls, ref>>

NextShouldRun == ProbeShouldRun

SpecShouldRun == InitShouldRun /\ [][NextShouldRun]_vars

----------------------------------------------------------------------------
(* Properties *)

\* the number of entries of seq equal to x
Count(seq, x) == Cardinality({i \in 1..Len(seq) : seq[i] = x})

Terminated(r) == task[r].st \in {"finished", "aborted", "panicked"}

\* the task is over because of stop(): it saw the signal, or was cancelled
EndedByStop(r) == task[r].st \in {"finished", "aborted"}

\* C1: a job that does not allow parallel runs never has two invocations of
\* its handler in progress: the loop does not enter handle() again before
\* the previous invocation is over.
C1_NoReentry ==
    \A r \in Runners : \A id \in 0..(Len(task[r].jobs) - 1) :
        ~allow_parallel_runs(task[r].jobs[id + 1])
            => Count(executing[r], id) <= 1

\* a handler of a job without parallel runs is still in progress one period
\* after the process started, at an instant at which the job is ready again
C1_Witness ==
    \E r \in Runners :
        /\ Alive(r) /\ task[r].pc = "handle"
        /\ now >= Epoch + SecondMs
        /\ ~allow_parallel_runs(task[r].jobs[task[r].id + 1])
        /\ should_run(task[r].jobs[task[r].id + 1], now)
        /\ Count(executing[r], task[r].id) = 1

\* C2: once stop() was called on a Started runner its task eventually is
\* over (it observed the signal, or it was cancelled at a suspension point),
\* and a task that is over stays over and has no handler in progress.
C2_StopTerminates ==
    /\ \A r \in Runners : (Phase(r) = "Stopped") ~> ~Alive(r)
    /\ [][\A r \in Runners :
            Terminated(r) => (task'[r] = task[r] /\ executing'[r] = << >>)]_vars

\* a stopped runner whose task was cancelled without seeing the signal
C2_Witness ==
    \E r \in Runners : Phase(r) = "Stopped" /\ task[r].st = "aborted"

\* C3 as claimed: after stop() on a Started runner, once the stop has ended
\* the task (nothing writes the flag any more) is_working() reads false.
C3_WorkingFalseAfterStop ==
    \A r \in Runners :
        (Phase(r) = "Stopped" /\ EndedByStop(r)) => ~is_working(r)

\* C4 as claimed: when stop() has returned on a Started runner,
\* is_running() is false.
C4_RunningResetAfterStop ==
    (lastCall.op = "stop" /\ lastCall.pre = "Started")
        => ~is_running(lastCall.r)

\* C5: while a handler of the runner is in progress, is_working() is true.
C5_WorkingWhileExecuting ==
    \A r \in Runners : executing[r] # << >> => is_working(r)

\* a Started runner with a handler in progress
C5_Witness ==
    \E r \in Runners :
        Phase(r) = "Started" /\ task[r].pc = "handle" /\ executing[r] # << >>

\* what a Runner method may change: the runner's fields, its task, its
\* channel and abort flag, the Tracker, the handlers in progress
Program == <<jobs, thread, running, tx, working, task, rx, abort, TRACKER,
             executing>>

\* C6: on a runner that was never started jobs_to_run() is the number of
\* add() calls made on it and the list is the added jobs in call order,
\* duplicates included; the runner returned by run() after at least one
\* add() has jobs_to_run() = 0 and is_running() true.
C6_JobsToRun ==
    /\ \A r \in Runners :
          ~is_running(r) =>
              (jobs_to_run(r) = Len(added[r]) /\ jobs[r] = added[r])
    /\ (lastCall.op = "run" /\ lastCall.pre = "Unstarted"
            /\ Len(added[lastCall.r]) >= 1)
          => (jobs_to_run(lastCall.r) = 0 /\ is_running(lastCall.r))

\* run() has returned on a runner that got the same job twice
C6_Witness ==
    /\ lastCall.op = "run" /\ lastCall.pre = "Unstarted"
    /\ Len(added[lastCall.r]) = 2
    /\ added[lastCall.r][1] = added[lastCall.r][2]
    /\ jobs_to_run(lastCall.r) = 0

\* C7: run() on an empty job list changes nothing, and the runner returned
\* by run() on a never started runner without jobs is not running, has no
\* task, no handle and no sender.
C7_RunOnEmpty ==
    /\ [](( lastCall.op = "run" /\ lastCall.pre = "Unstarted"
            /\ added[lastCall.r] = << >>)
          => (/\ ~is_running(lastCall.r)
              /\ task[lastCall.r].st = "none"
              /\ ~thread[lastCall.r] /\ ~tx[lastCall.r]
              /\ Phase(lastCall.r) = "Unstarted"))
    /\ [][\A r \in Runners :
            (jobs[r] = << >> /\ Run(r)) => UNCHANGED Program]_vars

\* run() has returned on a never started runner without jobs
C7_Witness ==
    /\ lastCall.op = "run" /\ lastCall.pre = "Unstarted"
    /\ added[lastCall.r] = << >>
    /\ ~is_running(lastCall.r)

\* C8: add() on a runner that is not Unstarted changes nothing:
\* jobs_to_run() stays 0 and the jobs of the task are the same.
C8_AddAfterStart ==
    [][\A r \in Runners, job \in JobKinds :
          (Phase(r) # "Unstarted" /\ Add(r, job))
              => (jobs_to_run(r)' = 0 /\ UNCHANGED Program)]_vars

\* add() has returned on a Started runner whose task is alive
C8_Witness ==
    /\ lastCall.op = "add" /\ lastCall.pre = "Started"
    /\ Alive(lastCall.r)

\* C9: stop() on a runner that is not Started (never started, or stopped
\* already) changes nothing: no signal is sent, no task is aborted.
C9_StopNotStarted ==
    [][\A r \in Runners :
          (Phase(r) # "Started" /\ Stop(r)) => UNCHANGED Program]_vars

\* a second stop() has returned while the task of the runner is still alive
C9_Witness ==
    /\ lastCall.op = "stop" /\ lastCall.pre = "Stopped"
    /\ Alive(lastCall.r)

\* the fire times of schedule s up to the probed horizon
FireTimes(s) ==
    {s.phase + k * s.every : k \in 0..((MaxProbeMs \div SecondMs) + 1)}

\* the first fire time of s strictly after t
FirstFireAfter(s, t) ==
    CHOOSE f \in FireTimes(s) :
        f > t /\ \A g \in FireTimes(s) : g > t => f <= g

\* C10: should_run at t is true iff the job is active, has a schedule, and
\* the first fire time strictly after t is at most 100 ms after t.
C10_ShouldRun ==
    probe.done =>
        (probe.res <=>
            (/\ is_active(probe.job)
             /\ schedule(probe.job).some
             /\ FirstFireAfter(schedule(probe.job), probe.t) - probe.t
                    <= THRESHOLD_MS))

\* should_run returned true exactly 100 ms before a fire time
C10_Witness ==
    /\ probe.done /\ probe.res
    /\ FirstFireAfter(schedule(probe.job), probe.t) - probe.t = THRESHOLD_MS

\* the runner has an invocation of slot id in progress that was entered for
\* one fire time of the job, and the next fire time of the job has passed
DueAgain(r, id) ==
    /\ Phase(r) = "Started" /\ Alive(r)
    /\ task[r].pc = "handle" /\ task[r].id = id
    /\ polls[r].fire[id + 1] # 0
    /\ now >= FireTime(task[r].jobs[id + 1], polls[r].fire[id + 1])

\* C11 as claimed: a job that allows parallel runs is entered again while an
\* earlier invocation of it is executing. When the next fire time of such a
\* job has passed with the earlier invocation still in progress in a Started
\* runner, two invocations of the slot are executing.
C11_ParallelReentry ==
    \A r \in Runners : \A id \in 0..(Len(task[r].jobs) - 1) :
        (allow_parallel_runs(task[r].jobs[id + 1]) /\ DueAgain(r, id))
            => Count(executing[r], id) >= 2

\* the loop of runner r is about to evaluate its job at slot id
Evaluating(r, id) ==
    Alive(r) /\ task[r].pc = "eval" /\ task[r].id = id
             /\ id < Len(task[r].jobs)

\* C12 as claimed: two distinct jobs without parallel runs and with the same
\* schedule, at two slots of one runner or in two runners: while the handler
\* of one is executing (its slot is marked in TRACKER), the other, when it
\* is evaluated and ready and has no invocation of its own in progress, is
\* eligible.
C12_IndependentTracking ==
    \A r \in Runners, r2 \in Runners :
      \A id \in 0..(Len(task[r].jobs) - 1), id2 \in 0..(Len(task[r2].jobs) - 1) :
        ( /\ <<r, id>> # <<r2, id2>>
          /\ Evaluating(r, id)
          /\ ~allow_parallel_runs(task[r].jobs[id + 1])
          /\ ~allow_parallel_runs(task[r2].jobs[id2 + 1])
          /\ schedule(task[r].jobs[id + 1]) = schedule(task[r2].jobs[id2 + 1])
          /\ should_run(task[r].jobs[id + 1], now)
          /\ Count(executing[r], id) = 0
          /\ Count(executing[r2], id2) >= 1
          /\ Tracker_running(TRACKER, id2) )
        => Eligible(task[r].jobs[id + 1], id)

\* one step of the loop of r, as the order of evaluation allows it: a cycle
\* begins at slot 0; the slot under evaluation is either entered or left for
\* the next one; a slot whose handler returned is left for the next one and
\* no handler is in progress then; the cycle ends after the last slot
InOrder(r) ==
    LET t == task[r]
        u == task'[r]
        N == Len(t.jobs)
    IN  (Alive(r) /\ u.st = "alive" /\ u # t) =>
          /\ u.jobs = t.jobs
          /\ t.pc = "check" => (u.pc = "eval" /\ u.id = 0)
          /\ (t.pc = "eval" /\ t.id < N) =>
                \/ u.pc = "start" /\ u.id = t.id
                \/ u.pc = "eval" /\ u.id = t.id + 1
          /\ t.pc = "start" => (u.pc = "handle" /\ u.id = t.id)
          /\ t.pc = "handle" =>
                (u.pc = "eval" /\ u.id = t.id + 1 /\ executing'[r] = << >>)
          /\ (t.pc = "eval" /\ t.id >= N) => (u.pc = "sleep" /\ t.id = N)
          /\ t.pc = "sleep" => u.pc \in {"sleep", "check"}

C14_NoStaleEntries ==
    /\ \A i \in 1..Len(TRACKER) :
          \E r \in Runners : Count(executing[r], TRACKER[i]) >= 1
    /\ \A r \in Runners :
          (task[r].pc = "handle"
              /\ ~allow_parallel_runs(task[r].jobs[task[r].id + 1]))
            => Tracker_running(TRACKER, task[r].id)

\* the slot indices a runner of the process can have
Slots == 0..MaxTrackJobs

\* C15: the step that follows the return of the handler of slot i removes i
\* from TRACKER, leaves every other slot as it was, and stores in the
\* runner's working flag whether TRACKER is non-empty after the removal.
C15_WorkingAfterReturn ==
    [][\A r \in Runners :
          (task[r].pc = "handle" /\ HandleReturn(r)) =>
              /\ ~Tracker_running(TRACKER', task[r].id)
              /\ \A j \in Slots \ {task[r].id} :
                    Tracker_running(TRACKER', j) <=> Tracker_running(TRACKER, j)
              /\ is_working(r)' <=> (\E j \in Slots : Tracker_running(TRACKER', j))
              /\ is_working(r)' <=> (Len(TRACKER') # 0)]_vars

\* a handler has returned and the flag reads true: another slot is marked
C15_Witness ==
    \E r \in Runners :
        /\ Alive(r) /\ task[r].pc = "eval" /\ executing[r] = << >>
        /\ is_working(r)
        /\ TRACKER # << >> /\ ~Tracker_running(TRACKER, task[r].id - 1)

FiresDue(r, job) ==
    {T \in (polls[r].first + THRESHOLD_MS)..now :
        T >= schedule(job).phase
            /\ (T - schedule(job).phase) % schedule(job).every = 0}

\* C17 as claimed: handlers return instantly and sleeps last exactly 100 ms.
\* For an active job with a schedule in a runner that was started and not
\* stopped, every fire time T that has come, at least 100 ms after the first
\* poll, was served: the handler was invoked at a poll that found T the next
\* fire time, at most 100 ms away.
C17_NoMissedFire ==
    \A r \in Runners : \A id \in 0..(Len(task[r].jobs) - 1) :
        LET job == task[r].jobs[id + 1]
        IN  ( /\ Phase(r) = "Started" /\ Alive(r)
              /\ polls[r].first # 0
              /\ is_active(job) /\ schedule(job).some )
            => \A T \in FiresDue(r, job) : polls[r].fire[id + 1] >= T

\* the same where no other runner of the process was started: TRACKER holds
\* no mark but the runner's own
NoMissedFireAlone ==
    \A r \in Runners : \A id \in 0..(Len(task[r].jobs) - 1) :
        LET job == task[r].jobs[id + 1]
        IN  ( /\ Phase(r) = "Started" /\ Alive(r)
              /\ polls[r].first # 0
              /\ is_active(job) /\ schedule(job).some
              /\ \A q \in Runners \ {r} : task[q].st = "none" )
            => \A T \in FiresDue(r, job) : polls[r].fire[id + 1] >= T

\* C18: under any sequence of start and stop calls the Tracker is a set of
\* ids: the Vec holds no id twice and holds the ids of the set; running(id)
\* is true iff the last start or stop call on id was a start; each call
\* returns the cardinality of the set after it, changes nothing when it is
\* repeated (start of a running id, stop of an id that is not running), and
\* leaves the membership of every other id as it was.
C18_TrackerIsSet ==
    /\ [](/\ \A i, j \in 1..Len(TRACKER) : i # j => TRACKER[i] # TRACKER[j]
          /\ \A id \in 0..MaxId :
                /\ Tracker_running(TRACKER, id) <=> id \in ref.set
                /\ Tracker_running(TRACKER, id) <=> ref.last[id] = "start"
          /\ ref.ret = Cardinality(ref.set)
          /\ ref.ret = Len(TRACKER))
    /\ [][\A id \in 0..MaxId :
            /\ (Tracker_running(TRACKER, id) /\ CallStart(id))
                  => (TRACKER' = TRACKER /\ ref.ret' = Len(TRACKER))
            /\ (~Tracker_running(TRACKER, id) /\ CallStop(id))
                  => (TRACKER' = TRACKER /\ ref.ret' = Len(TRACKER))
            /\ (CallStart(id) \/ CallStop(id))
                  => \A j \in (0..MaxId) \ {id} :
                        Tracker_running(TRACKER', j) <=> Tracker_running(TRACKER, j)]_vars

\* three ids are running, the last call returned 3, and another id was
\* started and stopped
C18_Witness ==
    /\ Len(TRACKER) = 3 /\ ref.ret = 3
    /\ \E id \in 0..MaxId :
          /\ TRACKER[3] = id /\ ref.last[id] = "start"
          /\ \E j \in (0..MaxId) \ {id} : ref.last[j] = "stop"

\* C19: the handler of a job is invoked at most once for a fire time. When
\* an evaluation finds the job at a slot eligible, the fire time T that
\* makes it ready is at most 100 ms ahead and not reached
\* (T - 100 ms <= now < T), and it is later than the fire time of every
\* earlier invocation of the slot, however long the handlers take.
C19_OncePerFire ==
    [][\A r \in Runners :
          ( /\ task[r].pc = "eval" /\ task[r].id < Len(task[r].jobs)
            /\ LoopEval(r) /\ task'[r].pc = "start" ) =>
              LET T == FireTime(task[r].jobs[task[r].id + 1], now)
              IN  /\ T - THRESHOLD_MS <= now /\ now < T
                  /\ T > polls[r].fire[task[r].id + 1]]_vars

\* a second invocation of a slot is in progress, entered for the fire time
\* after the one of its first invocation
C19_Witness ==
    \E r \in Runners :
        /\ Alive(r) /\ task[r].pc = "handle"
        /\ now >= Epoch + SecondMs
        /\ polls[r].fire[task[r].id + 1] = Epoch + SecondMs + TickMs
        /\ executing[r] = << task[r].id >>

\* run() has spawned a task for the runner at some time
Spawned(r) == task[r].st # "none"

====
